---- MODULE Spec2Model ----
(***************************************************************************)
(* Model of the ContextManager of the coding agent: the recency window,    *)
(* the session summary, the long-term fact store and the prompt assembler  *)
(* with its token-budget degradation (ContextManager.ts).                  *)
(***************************************************************************)
EXTENDS Integers, Sequences, FiniteSets, TLC

VARIABLES
    staticPrefix,      \* ContextManager.staticPrefix : Msg[]
    window,            \* ContextManager.window : Msg[]
    sessionSummary,    \* ContextManager.sessionSummary : string
    facts,             \* ContextManager.facts : Record<string, Fact>, as the
                       \* sequence of its entries [idx, fact] in property order
    now,               \* the wall clock read by new Date(), in milliseconds
    appended,          \* history: every message ever handed to addTurn
    lastUpsert,        \* history: the argument of the last upsertFacts, emptied
                       \* when cleanupFacts runs
    out,               \* history: arguments and result of the last buildPrompt
                       \* made in the current state of the manager (NoCall once
                       \* the state has changed since)
    calls,             \* the processMessage calls of the agent: where each one
                       \* is, what it read and what it settled with
    compaction,        \* history: the last fact extraction step of processMessage
    digest,            \* history: arguments and result of the last makeToolDigest
    factLog,           \* history: the last call on the fact store, with the
                       \* store it found
    lastSet,           \* history: the argument of the last setSessionSummary
    logging,           \* whether factLog and lastSet are kept: fixed by the
                       \* initial state
    currentProjectId,  \* ProjectStateManager.currentProjectId : string | null
    disk,              \* the projects directory: the project directories and
                       \* the files in them
    pending,           \* the tool calls that wait for their rate-limit delay
    toolOut,           \* history: the last tool call that returned, with what
                       \* it found, what it returned and the fs calls it made
    sessions           \* history: per session, the project its last successful
                       \* createProject made, and whether it has itself called
                       \* setProjectId since

vars ==
    <<staticPrefix, window, sessionSummary, facts, now, appended, lastUpsert, out,
      calls, compaction, digest, factLog, lastSet, logging,
      currentProjectId, disk, pending, toolOut, sessions>>

\* the state of the local project tools
localTools == <<currentProjectId, disk, pending, toolOut, sessions>>

\* the state of the context-aware agent and the histories of its calls
agentState ==
    <<staticPrefix, window, sessionSummary, facts, now, appended, lastUpsert, out,
      calls, compaction, digest, factLog, lastSet, logging>>

\* what is not a field of the ContextManager nor a history of its calls
outside == <<calls, compaction, digest, localTools>>

(***************************************************************************)
(* Bounds of the model.                                                    *)
(***************************************************************************)
MaxAppended == 7       \* messages handed to addTurn over one behaviour
BigBatchLen == 7       \* length of the largest single addTurn batch
MaxClock == 2          \* largest clock value
MaxNewFacts == 2       \* longest argument of upsertFacts
MaxRawLen == 6         \* longest tool output handed to makeToolDigest
MaxCalls == 2          \* processMessage calls made on the agent
MaxOverlap == 3        \* processMessage calls that overlap on the agent
MaxSessions == 2       \* sessions that share the process
MaxPending == 2        \* tool calls waiting for their rate-limit delay at a time
MaxKeepTurns == 7      \* largest keepTurns passed to buildPrompt

(***************************************************************************)
(* Program constants.                                                      *)
(***************************************************************************)
WindowCap == 6
DefaultMaxBullets == 30
DefaultMaxInputTokens == 3500
DefaultKeepTurns == 4
DefaultMaxChars == 800
AgentMaxFacts == 80    \* processMessage: cleanupFacts(80)

Max(a, b) == IF a > b THEN a ELSE b
Min(a, b) == IF a < b THEN a ELSE b

(***************************************************************************)
(* JavaScript Array.prototype.slice(start, end) and String.prototype.slice *)
(* on 1-based TLA+ sequences and strings: a negative index counts from the *)
(* end, and both indices are clamped to [0, length].                       *)
(***************************************************************************)
RelIndex(len, i) == IF i < 0 THEN Max(len + i, 0) ELSE Min(i, len)

Slice2(arr, start, end) ==
    SubSeq(arr, RelIndex(Len(arr), start) + 1, RelIndex(Len(arr), end))

Slice(arr, start) == Slice2(arr, start, Len(arr))

(***************************************************************************)
(* Characters.  Strings are JavaScript strings over the characters of      *)
(* CodeUnitOrder, which lists them by ascending UTF-16 code unit.          *)
(***************************************************************************)
CodeUnitOrder ==
    "\n \"'+-.0123456789:=ABCDEFGHIJKLMNOPQRSTUVWXYZ[\\]abcdefghijklmnopqrstuvwxyz"
UpperLetters == "ABCDEFGHIJKLMNOPQRSTUVWXYZ"
LowerLetters == "abcdefghijklmnopqrstuvwxyz"

CharAt(s, i) == SubSeq(s, i, i)

CodeUnitRank(c) == CHOOSE i \in 1..Len(CodeUnitOrder) : CharAt(CodeUnitOrder, i) = c

LowerChar(c) ==
    IF \E i \in 1..26 : CharAt(UpperLetters, i) = c
    THEN CharAt(LowerLetters, CHOOSE i \in 1..26 : CharAt(UpperLetters, i) = c)
    ELSE c

RECURSIVE toLowerCase(_)
toLowerCase(s) ==
    IF s = "" THEN ""
    ELSE LowerChar(CharAt(s, 1)) \o toLowerCase(SubSeq(s, 2, Len(s)))

\* a > b on JavaScript strings: lexicographic by code unit
RECURSIVE StrGT(_, _)
StrGT(a, b) ==
    IF a = "" THEN FALSE
    ELSE IF b = "" THEN TRUE
    ELSE IF CharAt(a, 1) = CharAt(b, 1)
         THEN StrGT(SubSeq(a, 2, Len(a)), SubSeq(b, 2, Len(b)))
         ELSE CodeUnitRank(CharAt(a, 1)) > CodeUnitRank(CharAt(b, 1))

(***************************************************************************)
(* Dates.  new Date().toISOString() renders the clock (milliseconds since  *)
(* the epoch, below one second in this model) as an ISO-8601 string, and   *)
(* new Date(iso).getTime() parses it back.                                 *)
(***************************************************************************)
Digits == "0123456789"

DigitChar(d) == CharAt(Digits, d + 1)

DigitValue(c) == (CHOOSE i \in 1..10 : CharAt(Digits, i) = c) - 1

toISOString(ms) ==
    "1970-01-01T00:00:00."
        \o DigitChar(ms \div 100) \o DigitChar((ms \div 10) % 10) \o DigitChar(ms % 10)
        \o "Z"

getTime(iso) ==
    100 * DigitValue(CharAt(iso, 21)) + 10 * DigitValue(CharAt(iso, 22))
        + DigitValue(CharAt(iso, 23))

(***************************************************************************)
(* Array.prototype.sort(cmp) is a stable sort: an element goes before the  *)
(* earlier ones that the comparator orders after it and stays behind the   *)
(* others.  One pair of operators per comparator of the source.            *)
(***************************************************************************)
\* mutant of CmpKey: the comparison turned round
CmpKeyDescending(a, b) == IF StrGT(a.key, b.key) THEN -1 ELSE 1

\* getFactsAsBulletList: (a, b) => (a.key > b.key ? 1 : -1)
CmpKey(a, b) == IF StrGT(a.key, b.key) THEN 1 ELSE -1

\* arr[j] comes before arr[i] in the sorted array
BeforeByKey(arr, j, i) ==
    IF j < i THEN ~(CmpKey(arr[j], arr[i]) > 0) ELSE CmpKey(arr[i], arr[j]) > 0

\* each place of arr with its place in the sorted array
PlacesByKey(arr) ==
    {<<i, 1 + Cardinality({j \in 1..Len(arr) \ {i} : BeforeByKey(arr, j, i)})>> :
        i \in 1..Len(arr)}

SortByKey(arr) ==
    LET places == PlacesByKey(arr)
    IN  [r \in 1..Len(arr) |-> arr[(CHOOSE p \in places : p[2] = r)[1]]]

\* mutant of CmpRecency: the oldest update first
CmpRecencyOldestFirst(a, b) == getTime(a.fact.updatedAt) - getTime(b.fact.updatedAt)

\* cleanupFacts: (a, b) => new Date(b[1].updatedAt).getTime() - new Date(a[1].updatedAt).getTime()
CmpRecency(a, b) == getTime(b.fact.updatedAt) - getTime(a.fact.updatedAt)

\* arr[j] comes before arr[i] in the sorted array
BeforeByRecency(arr, j, i) ==
    IF j < i THEN ~(CmpRecency(arr[j], arr[i]) > 0) ELSE CmpRecency(arr[i], arr[j]) > 0

\* each place of arr with its place in the sorted array
PlacesByRecency(arr) ==
    {<<i, 1 + Cardinality({j \in 1..Len(arr) \ {i} : BeforeByRecency(arr, j, i)})>> :
        i \in 1..Len(arr)}

SortByRecency(arr) ==
    LET places == PlacesByRecency(arr)
    IN  [r \in 1..Len(arr) |-> arr[(CHOOSE p \in places : p[2] = r)[1]]]

RECURSIVE Join(_, _)
Join(items, sep) ==
    IF items = <<>> THEN ""
    ELSE IF Len(items) = 1 THEN items[1]
    ELSE items[1] \o sep \o Join(Tail(items), sep)

(***************************************************************************)
(* Token Counter: countTokens serialises the messages with JSON.stringify  *)
(* and counts the tokens of the text.  The tokenizer is an external        *)
(* library; it is modelled as one token per code unit of the text.         *)
(***************************************************************************)
JsonEscaped == {"\n", "\"", "\\"}

EscapeChar(c) ==
    IF c = "\n" THEN "\\n" ELSE IF c = "\"" THEN "\\\"" ELSE IF c = "\\" THEN "\\\\" ELSE c

\* the text of s inside a JSON string literal, escaped character by character
RECURSIVE JsonEscape(_)
JsonEscape(s) ==
    LET special == {i \in 1..Len(s) : CharAt(s, i) \in JsonEscaped}
    IN  IF special = {} THEN s
        ELSE LET i == CHOOSE j \in special : \A h \in special : j <= h
             IN  SubSeq(s, 1, i - 1) \o EscapeChar(CharAt(s, i))
                     \o JsonEscape(SubSeq(s, i + 1, Len(s)))

JsonMsg(m) ==
    "{\"role\":\"" \o JsonEscape(m.role) \o "\",\"content\":\"" \o JsonEscape(m.content) \o "\"}"

JSONstringify(messages) ==
    "[" \o Join([i \in 1..Len(messages) |-> JsonMsg(messages[i])], ",") \o "]"

encodeLength(text) == Len(text)

countTokens(messages) == encodeLength(JSONstringify(messages))

(***************************************************************************)
(* Messages and facts.                                                     *)
(***************************************************************************)
Msg(role, content) == [role |-> role, content |-> content]

\* mutant of makeToolDigest: truncates from maxChars characters on
makeToolDigestFromMaxChars(name, raw, maxChars) ==
    LET trimmed == IF Len(raw) >= maxChars
                   THEN Slice2(raw, 0, maxChars) \o " ...[truncated]"
                   ELSE raw
    IN  Msg("tool", "TOOL=" \o name \o "\nSUMMARY:\n" \o trimmed)

\* static makeToolDigest(name, raw, maxChars)
makeToolDigest(name, raw, maxChars) ==
    LET trimmed == IF Len(raw) > maxChars
                   THEN Slice2(raw, 0, maxChars) \o " ...[truncated]"
                   ELSE raw
    IN  Msg("tool", "TOOL=" \o name \o "\nSUMMARY:\n" \o trimmed)

(***************************************************************************)
(* Fact store.  this.facts is an object indexed by the lower-cased key; it *)
(* is modelled by its entries in property order (insertion order, an       *)
(* overwritten property keeping its place; no key of the model is an array *)
(* index, which JavaScript would list first).                              *)
(***************************************************************************)
HasIdx(store, idx) == \E i \in 1..Len(store) : store[i].idx = idx

\* mutant of SetProperty: adds an entry even when the property exists
SetPropertyAppend(store, idx, rec) == Append(store, [idx |-> idx, fact |-> rec])

\* this.facts[idx] = rec
SetProperty(store, idx, rec) ==
    IF HasIdx(store, idx)
    THEN [i \in 1..Len(store) |->
            IF store[i].idx = idx THEN [idx |-> idx, fact |-> rec] ELSE store[i]]
    ELSE Append(store, [idx |-> idx, fact |-> rec])

\* mutant of upsertOne: indexes the store by the key as given
upsertOneRawKey(store, f, ms) ==
    SetProperty(store, f.key,
                [key |-> f.key, value |-> f.value, updatedAt |-> toISOString(ms)])

\* one iteration of the loop of upsertFacts, the clock reading ms
upsertOne(store, f, ms) ==
    SetProperty(store, toLowerCase(f.key),
                [key |-> f.key, value |-> f.value, updatedAt |-> toISOString(ms)])

\* the loop of upsertFacts; times[i] is the clock read by iteration i
RECURSIVE upsertLoop(_, _, _)
upsertLoop(store, newFacts, times) ==
    IF newFacts = <<>> THEN store
    ELSE upsertLoop(upsertOne(store, Head(newFacts), Head(times)),
                    Tail(newFacts), Tail(times))

\* Object.values(this.facts)
ObjectValues(store) == [i \in 1..Len(store) |-> store[i].fact]

BulletLine(f) == "- " \o f.key \o ": " \o f.value

\* mutant of getFactsAsBulletList: the first max facts in property order
getFactsAsBulletListUnsorted(max) ==
    LET kept == Slice2(ObjectValues(facts), 0, max)
        items == [i \in 1..Len(kept) |-> BulletLine(kept[i])]
    IN  Join(items, "\n")

getFactsAsBulletList(max) ==
    LET kept == Slice2(SortByKey(ObjectValues(facts)), 0, max)
        items == [i \in 1..Len(kept) |-> BulletLine(kept[i])]
    IN  Join(items, "\n")

\* mutant of cleanupResult: sorts and cuts a store of any size
cleanupResultUnguarded(store, maxFacts) == Slice2(SortByRecency(store), 0, maxFacts)

\* the store after cleanupFacts(maxFacts)
cleanupResult(store, maxFacts) ==
    IF Len(store) > maxFacts
    THEN Slice2(SortByRecency(store), 0, maxFacts)
    ELSE store

(***************************************************************************)
(* Prompt assembler.                                                       *)
(***************************************************************************)
NudgeMsg ==
    Msg("system",
        "Context trimmed for token budget. Rely on 'Session summary' + 'Key facts' above.")

\* ...(summaryMsg ? [summaryMsg] : [])
SummarySegment ==
    IF sessionSummary # ""
    THEN <<Msg("system", "Session summary (compact):\n" \o sessionSummary)>>
    ELSE <<>>

\* ...(factsBlock ? [{ role: "system", content: `Key facts:\n${factsBlock}` }] : [])
FactsSegment ==
    LET factsBlock == getFactsAsBulletList(DefaultMaxBullets)
    IN  IF factsBlock # "" THEN <<Msg("system", "Key facts:\n" \o factsBlock)>> ELSE <<>>

\* mutant of Candidate: the facts segment ahead of the summary segment
CandidateFactsFirst(userMsg, start) ==
    staticPrefix \o FactsSegment \o SummarySegment \o Slice(window, start) \o <<userMsg>>

\* a candidate of buildPrompt whose window segment is this.window.slice(start)
Candidate(userMsg, start) ==
    staticPrefix \o SummarySegment \o FactsSegment \o Slice(window, start) \o <<userMsg>>

\* const base
BasePrompt(userMsg, keepTurns) == Candidate(userMsg, -keepTurns)

\* the prompt rebuilt by one iteration of the Step 1 loop, k already decremented
ShrunkPrompt(userMsg, k) == Candidate(userMsg, -Max(0, k))

\* mutant of NudgePrompt: the nudge appended after the user message
NudgePromptNudgeLast(userMsg) ==
    staticPrefix \o SummarySegment \o FactsSegment \o <<userMsg>> \o <<NudgeMsg>>

\* mutant of NudgePrompt: the window segment kept next to the nudge
NudgePromptKeepsWindow(userMsg) ==
    staticPrefix \o <<NudgeMsg>> \o SummarySegment \o FactsSegment \o window \o <<userMsg>>

\* mutant of NudgePrompt: Step 2 drops the facts segment along with the window
NudgePromptDropsFacts(userMsg) ==
    staticPrefix \o <<NudgeMsg>> \o SummarySegment \o <<userMsg>>

\* the prompt of Step 2
NudgePrompt(userMsg) ==
    staticPrefix \o <<NudgeMsg>> \o SummarySegment \o FactsSegment \o <<userMsg>>

\* mutant of ShrinkGuard: shrinks already when the count equals the budget
ShrinkGuardAtBudget(tokens, maxInputTokens, k) == tokens >= maxInputTokens /\ k > 0

\* mutant of ShrinkGuard: goes on shrinking at k = 0
ShrinkGuardAtZero(tokens, maxInputTokens, k) == tokens > maxInputTokens /\ k >= 0

\* the condition of the Step 1 loop
ShrinkGuard(tokens, maxInputTokens, k) == tokens > maxInputTokens /\ k > 0

\* mutant of NudgeGuard: Step 2 runs already when the count equals the budget
NudgeGuardAtBudget(tokens, maxInputTokens) == tokens >= maxInputTokens

\* the condition of Step 2
NudgeGuard(tokens, maxInputTokens) == tokens > maxInputTokens

\* mutant of ShrinkLoop: drops one message, not one turn, per iteration
RECURSIVE ShrinkLoopByOne(_, _, _)
ShrinkLoopByOne(userMsg, maxInputTokens, st) ==
    IF ShrinkGuard(st.tokens, maxInputTokens, st.k)
    THEN LET k == st.k - 1
             prompt == ShrunkPrompt(userMsg, k)
             tokens == countTokens(prompt)
         IN  ShrinkLoopByOne(userMsg, maxInputTokens,
                             [k |-> k, prompt |-> prompt, tokens |-> tokens,
                              measured |-> Append(st.measured,
                                                  [k |-> k, prompt |-> prompt,
                                                   tokens |-> tokens])])
    ELSE st

(* Step 1: st = [k, prompt, tokens, measured]; measured lists every prompt   *)
(* handed to countTokens so far, with the k it was built for and its count.  *)
RECURSIVE ShrinkLoop(_, _, _)
ShrinkLoop(userMsg, maxInputTokens, st) ==
    IF ShrinkGuard(st.tokens, maxInputTokens, st.k)
    THEN LET k == st.k - 2
             prompt == ShrunkPrompt(userMsg, k)
             tokens == countTokens(prompt)
         IN  ShrinkLoop(userMsg, maxInputTokens,
                        [k |-> k, prompt |-> prompt, tokens |-> tokens,
                         measured |-> Append(st.measured,
                                             [k |-> k, prompt |-> prompt, tokens |-> tokens])])
    ELSE st

\* buildPrompt(userMsg, { maxInputTokens, keepTurns }): the returned object,
\* together with the final k, the prompts measured and whether Step 2 ran
buildPromptResult(userMsg, maxInputTokens, keepTurns) ==
    LET base == BasePrompt(userMsg, keepTurns)
        tokens0 == countTokens(base)
        st == ShrinkLoop(userMsg, maxInputTokens,
                         [k |-> keepTurns, prompt |-> base, tokens |-> tokens0,
                          measured |-> <<[k |-> keepTurns, prompt |-> base, tokens |-> tokens0]>>])
        nudged == NudgeGuard(st.tokens, maxInputTokens)
    IN  [messages |-> IF nudged THEN NudgePrompt(userMsg) ELSE st.prompt,
         approxTokens |-> st.tokens,
         k |-> st.k,
         measured |-> st.measured,
         nudged |-> nudged]

(***************************************************************************)
(* State machine.                                                          *)
(***************************************************************************)
NoCall ==
    [called |-> FALSE, userMsg |-> Msg("user", ""), maxInputTokens |-> 0, keepTurns |-> 0,
     result |-> [messages |-> <<>>, approxTokens |-> 0, k |-> 0,
                 measured |-> <<>>, nudged |-> FALSE]]

\* a processMessage call not made yet
NotCalled ==
    [pc |-> "idle", userText |-> "", inFlight |-> {}, readWindow |-> <<>>,
     summaryArg |-> "", summaryOk |-> FALSE, returned |-> ""]

\* the processMessage calls of a behaviour, named in the order they begin
CallSlots == 1..Max(MaxCalls, MaxOverlap)

\* compaction before any fact extraction step
NoCompaction == [done |-> FALSE]

\* lastSet before any call of setSessionSummary
NoSet == [called |-> FALSE, summary |-> ""]

\* digest before any call of makeToolDigest
NoDigest == [called |-> FALSE]

\* factLog before any call on the fact store
NoFactCall == [op |-> "none", arg |-> 0, before |-> <<>>, repeat |-> FALSE, text |-> ""]

\* factLog after the call op(arg) that returns text; repeat tells that the
\* call before it was the same call with the same argument
Logged(op, arg, repeat, text) ==
    IF logging
    THEN [op |-> op, arg |-> arg, before |-> facts, repeat |-> repeat, text |-> text]
    ELSE factLog

\* the prefixes handed to the constructor
PrefixChoices == {<<Msg("system", "sys")>>}

\* the manager and the agent as their constructors leave them
\* currentProjectId : string | null
NullId == [isNull |-> TRUE, id |-> ""]
IdOf(str) == [isNull |-> FALSE, id |-> str]

\* context.projectId : string | undefined
Undefined == [given |-> FALSE, id |-> ""]
Given(str) == [given |-> TRUE, id |-> str]

\* the disk before any project exists
EmptyDisk == [root |-> FALSE, dirs |-> {}, files |-> {}]

\* toolOut before any tool has run
NoToolCall == [called |-> FALSE]

\* the sessions of the process, and a session that has created no project
Sessions == 1..MaxSessions
NoProjectYet == [created |-> NullId, chose |-> FALSE]

Constructed ==
    /\ staticPrefix \in PrefixChoices
    /\ window = <<>>
    /\ sessionSummary = ""
    /\ now = 0
    /\ appended = <<>>
    /\ lastUpsert = <<>>
    /\ out = NoCall
    /\ factLog = NoFactCall
    /\ lastSet = NoSet
    /\ digest = NoDigest
    /\ calls = [c \in CallSlots |-> NotCalled]
    /\ compaction = NoCompaction
    /\ currentProjectId = NullId
    /\ disk = EmptyDisk
    /\ pending = {}
    /\ toolOut = NoToolCall
    /\ sessions = [s \in Sessions |-> NoProjectYet]

Init ==
    /\ Constructed
    /\ facts = <<>>
    /\ logging = FALSE

\* mutant of capWindow: keeps the first 6 messages instead of the last 6
capWindowHead(w) == Slice2(w, 0, WindowCap)

\* this.window.slice(-6)
capWindow(w) == Slice(w, -WindowCap)

addTurn(messages) ==
    /\ Len(appended) + Len(messages) <= MaxAppended
    /\ window' = capWindow(window \o messages)
    /\ appended' = appended \o messages
    /\ out' = NoCall
    /\ UNCHANGED <<staticPrefix, sessionSummary, facts, now, lastUpsert, factLog, lastSet, logging, outside>>

\* mutant of setSessionSummary: adds the text to the stored summary
setSessionSummaryMerging(summary) ==
    /\ sessionSummary' = sessionSummary \o summary
    /\ out' = NoCall
    /\ lastSet' = IF logging THEN [called |-> TRUE, summary |-> summary] ELSE lastSet
    /\ UNCHANGED <<staticPrefix, window, facts, now, appended, lastUpsert, factLog, logging,
                   outside>>

setSessionSummary(summary) ==
    /\ sessionSummary' = summary
    /\ out' = NoCall
    /\ lastSet' = IF logging THEN [called |-> TRUE, summary |-> summary] ELSE lastSet
    /\ UNCHANGED <<staticPrefix, window, facts, now, appended, lastUpsert, factLog, logging,
                   outside>>

\* getCurrentSummary()
getCurrentSummary == sessionSummary

\* the clock readings a loop of n iterations can see: they never go back
ClockReadings(n) ==
    {t \in [1..n -> now..MaxClock] : \A i \in 1..n : \A j \in 1..n : i <= j => t[i] <= t[j]}

upsertFacts(newFacts, times) ==
    /\ times \in ClockReadings(Len(newFacts))
    /\ facts' = upsertLoop(facts, newFacts, times)
    /\ now' = IF newFacts = <<>> THEN now ELSE times[Len(times)]
    /\ lastUpsert' = newFacts
    /\ out' = NoCall
    /\ factLog' = Logged("upsertFacts", 0,
                         factLog.op = "upsertFacts" /\ lastUpsert = newFacts, "")
    /\ UNCHANGED <<staticPrefix, window, sessionSummary, appended, lastSet, logging, outside>>

cleanupFacts(maxFacts) ==
    /\ facts' = cleanupResult(facts, maxFacts)
    /\ lastUpsert' = <<>>
    /\ out' = NoCall
    /\ factLog' = Logged("cleanupFacts", maxFacts,
                         factLog.op = "cleanupFacts" /\ factLog.arg = maxFacts, "")
    /\ UNCHANGED <<staticPrefix, window, sessionSummary, now, appended, lastSet, logging, outside>>

\* a call of getFactsAsBulletList(max), as getContextInfo and buildPrompt make
getFactsAsBulletListCall(max) ==
    /\ factLog' = Logged("getFactsAsBulletList", max,
                         factLog.op = "getFactsAsBulletList" /\ factLog.arg = max,
                         getFactsAsBulletList(max))
    /\ UNCHANGED <<staticPrefix, window, sessionSummary, facts, now, appended, lastUpsert,
                   out, lastSet, logging, outside>>

\* mutant of buildPrompt: records the user message in the window
buildPromptRecordingUser(userMsg, maxInputTokens, keepTurns) ==
    /\ out' = [called |-> TRUE, userMsg |-> userMsg, maxInputTokens |-> maxInputTokens,
               keepTurns |-> keepTurns,
               result |-> buildPromptResult(userMsg, maxInputTokens, keepTurns)]
    /\ window' = capWindow(Append(window, userMsg))
    /\ UNCHANGED <<staticPrefix, sessionSummary, facts, now, appended, lastUpsert,
                   factLog, lastSet, logging, outside>>

buildPrompt(userMsg, maxInputTokens, keepTurns) ==
    /\ out' = [called |-> TRUE, userMsg |-> userMsg, maxInputTokens |-> maxInputTokens,
               keepTurns |-> keepTurns,
               result |-> buildPromptResult(userMsg, maxInputTokens, keepTurns)]
    /\ UNCHANGED <<staticPrefix, window, sessionSummary, facts, now, appended, lastUpsert,
                   factLog, lastSet, logging, outside>>

(***************************************************************************)
(* Inputs.                                                                 *)
(***************************************************************************)
UserTexts == {"go"}
TurnTexts == {"hi"}

\* a turn as recorded by processMessage, a tool digest as recorded by
\* addToolOutput, an empty batch and a batch longer than the window
TurnBatches ==
    {<<Msg("user", t), Msg("assistant", "ok")>> : t \in TurnTexts}
        \cup {<<makeToolDigest("ls", "a.ts", DefaultMaxChars)>>}
        \cup {<<>>}
        \cup {[i \in 1..BigBatchLen |->
                 Msg(IF i % 2 = 1 THEN "user" ELSE "assistant", "m" \o DigitChar(i))]}

Summaries == {"", "use pnpm"}

FactOf(key, value) == [key |-> key, value |-> value]

SeqsUpTo(S, n) == UNION {[1..m -> S] : m \in 0..n}

\* the fact batches of the whole-manager specification
PromptFactBatches == {<<FactOf("b", "2"), FactOf("a", "1")>>}

\* a tiny budget, the default, and the budgets at and just below the cost of
\* the initial candidate
BudgetChoices(userMsg, keepTurns) ==
    {1, DefaultMaxInputTokens,
     countTokens(BasePrompt(userMsg, keepTurns)),
     countTokens(BasePrompt(userMsg, keepTurns)) - 1}

\* negative, zero, the default and one above the window cap
KeepTurnsChoices == {-2, 0, DefaultKeepTurns, MaxKeepTurns}

Next ==
    \/ \E messages \in TurnBatches : addTurn(messages)
    \/ \E summary \in Summaries : setSessionSummary(summary)
    \/ \E newFacts \in PromptFactBatches : upsertFacts(newFacts, [i \in 1..Len(newFacts) |-> now])
    \/ cleanupFacts(1)
    \/ \E userMsg \in {Msg("user", t) : t \in UserTexts} :
         \E keepTurns \in KeepTurnsChoices :
           \E maxInputTokens \in BudgetChoices(userMsg, keepTurns) :
             buildPrompt(userMsg, maxInputTokens, keepTurns)

Spec == Init /\ [][Next]_vars

(***************************************************************************)
(* The fact store on its own: richer keys, values and clock readings.      *)
(***************************************************************************)
FactPool == {FactOf("Name", "1"), FactOf("name", "2"), FactOf("b", "3")}

FactBatches == SeqsUpTo(FactPool, MaxNewFacts)

NextFacts ==
    \/ \E newFacts \in FactBatches :
         \E times \in ClockReadings(Len(newFacts)) : upsertFacts(newFacts, times)
    \/ \E maxFacts \in (-1)..2 : cleanupFacts(maxFacts)

SpecFacts == Init /\ [][NextFacts]_vars

(***************************************************************************)
(* The fact store with its calls logged: what a call did to the store it   *)
(* found, and what two equal calls in a row do.                            *)
(***************************************************************************)
LogBatches ==
    { <<FactOf("Name", "1"), FactOf("name", "2")>>,
      <<FactOf("b", "3")>>,
      <<FactOf("a", "4"), FactOf("b", "5")>> }

\* the max passed to getFactsAsBulletList
BulletMaxes == {0, 1, 2, DefaultMaxBullets}

\* one clock reading for a whole call
SameReading(n) == {[i \in 1..n |-> t] : t \in now..MaxClock}

NextLog ==
    \/ \E newFacts \in LogBatches :
         \E times \in SameReading(Len(newFacts)) : upsertFacts(newFacts, times)
    \/ \E maxFacts \in (-1)..2 : cleanupFacts(maxFacts)
    \/ \E max \in BulletMaxes : getFactsAsBulletListCall(max)

InitLog ==
    /\ Constructed
    /\ facts = <<>>
    /\ logging = TRUE

SpecLog == InitLog /\ [][NextLog]_vars

(***************************************************************************)
(* Every operation of the manager, the summaries set being logged.         *)
(***************************************************************************)
SummaryChoices == Summaries \cup {"use npm"}

NextSummary ==
    \/ \E summary \in SummaryChoices : setSessionSummary(summary)
    \/ \E t \in TurnTexts : addTurn(<<Msg("user", t), Msg("assistant", "ok")>>)
    \/ \E newFacts \in PromptFactBatches : upsertFacts(newFacts, [i \in 1..Len(newFacts) |-> now])
    \/ cleanupFacts(1)
    \/ \E userMsg \in {Msg("user", t) : t \in UserTexts} :
         \E maxInputTokens \in {1, DefaultMaxInputTokens} :
            buildPrompt(userMsg, maxInputTokens, DefaultKeepTurns)

SpecSummary == InitLog /\ [][NextSummary]_vars

(***************************************************************************)
(* makeToolDigest on its own: tool names, outputs of every length up to    *)
(* MaxRawLen and limits around those lengths.                              *)
(***************************************************************************)
ToolNames == {"readFile", "sh"}

\* a tool output: its first characters are the outputs of the model
RawText == "a\nbcdefgh"

RawChoices == {SubSeq(RawText, 1, n) : n \in 0..MaxRawLen}

MaxCharsChoices == 0..(MaxRawLen + 1) \cup {DefaultMaxChars}

makeToolDigestCall(name, raw, maxChars) ==
    /\ digest' = [called |-> TRUE, name |-> name, raw |-> raw, maxChars |-> maxChars,
                  result |-> makeToolDigest(name, raw, maxChars)]
    /\ UNCHANGED <<staticPrefix, window, sessionSummary, facts, now, appended, lastUpsert,
                   out, factLog, lastSet, logging, calls, compaction, localTools>>

NextDigest ==
    \E name \in ToolNames : \E raw \in RawChoices : \E maxChars \in MaxCharsChoices :
        makeToolDigestCall(name, raw, maxChars)

SpecDigest == Init /\ [][NextDigest]_vars

(***************************************************************************)
(* JSON.parse of the fact extractor's text.  A JavaScript value is a       *)
(* record with its type: an array has its items, an object its properties  *)
(* (a function of their names), a string its characters.                   *)
(***************************************************************************)
JsArray(items) == [type |-> "array", items |-> items]
JsObject(props) == [type |-> "object", props |-> props]
JsString(str) == [type |-> "string", str |-> str]
JsNull == [type |-> "null"]

\* the value of a fact and of a list of facts
JsFact(f) == JsObject([key |-> JsString(f.key), value |-> JsString(f.value)])
JsFacts(fl) == JsArray([i \in 1..Len(fl) |-> JsFact(fl[i])])

\* the JSON text of a list of facts
FactsJson(fl) ==
    "[" \o Join([i \in 1..Len(fl) |->
                   "{\"key\":\"" \o JsonEscape(fl[i].key) \o "\",\"value\":\""
                       \o JsonEscape(fl[i].value) \o "\"}"], ",") \o "]"

KeyName(i) == "k" \o DigitChar(i \div 10) \o DigitChar(i % 10)

\* the facts of the earlier turns, BlockLen to a response
BlockLen == 20

BlockFacts(b) == [i \in 1..BlockLen |-> FactOf(KeyName((b - 1) * BlockLen + i), "v")]

Blocks == 1..(AgentMaxFacts \div BlockLen)

\* the lists of facts the extractor returns in the model
FactLists == {<<>>, <<FactOf("a", "1")>>}

\* a list whose second item has no key
MissingKeyText == "[{\"key\":\"b\",\"value\":\"2\"},{\"fact\":\"x\"}]"

MissingKeyValue ==
    JsArray(<<JsFact(FactOf("b", "2")), JsObject([fact |-> JsString("x")])>>)

\* one fact, not in a list
BareFactText == "{\"key\":\"a\",\"value\":\"1\"}"

\* the texts the extractor returns in the model that are JSON, each with its
\* value; any other text of the model makes JSON.parse throw a SyntaxError
ParseTable ==
    {<<FactsJson(fl), JsFacts(fl)>> : fl \in FactLists}
        \cup {<<MissingKeyText, MissingKeyValue>>,
              <<BareFactText, JsFact(FactOf("a", "1"))>>,
              <<"null", JsNull>>,
              <<"\"none\"", JsString("none")>>}

JSONparse(text) ==
    IF \E e \in ParseTable : e[1] = text
    THEN [ok |-> TRUE, value |-> (CHOOSE e \in ParseTable : e[1] = text)[2]]
    ELSE [ok |-> FALSE]

\* try { return JSON.parse(s); } catch { return []; }
safeParseFacts(str) ==
    LET parsed == JSONparse(str)
    IN  IF parsed.ok THEN parsed.value ELSE JsArray(<<>>)

(***************************************************************************)
(* upsertFacts on whatever safeParseFacts returned: the loop throws a      *)
(* TypeError when the value cannot be iterated and when f.key.toLowerCase() *)
(* cannot be evaluated; the facts before that item stay in the store.      *)
(***************************************************************************)
Iterable(v) == v.type \in {"array", "string"}

\* what for (const f of v) goes through
Iterated(v) ==
    IF v.type = "array" THEN v.items
    ELSE [i \in 1..Len(v.str) |-> JsString(CharAt(v.str, i))]

\* f.key.toLowerCase() can be evaluated
HasStringKey(f) ==
    /\ f.type = "object"
    /\ "key" \in DOMAIN f.props
    /\ f.props.key.type = "string"

\* the loop over the first n items, the clock reading ms
RECURSIVE upsertItems(_, _, _, _)
upsertItems(store, items, ms, n) ==
    IF n = 0 THEN [store |-> store, threw |-> FALSE]
    ELSE LET sofar == upsertItems(store, items, ms, n - 1)
         IN  IF sofar.threw THEN sofar
             ELSE IF ~HasStringKey(items[n]) THEN [store |-> sofar.store, threw |-> TRUE]
             ELSE [store |-> upsertOne(sofar.store,
                                       FactOf(items[n].props.key.str,
                                              items[n].props.value.str),
                                       ms),
                   threw |-> FALSE]

upsertFactsOfValue(store, v, ms) ==
    IF Iterable(v)
    THEN upsertItems(store, Iterated(v), ms, Len(Iterated(v)))
    ELSE [store |-> store, threw |-> TRUE]

(***************************************************************************)
(* The agent.  processMessage runs up to its first await, then from the    *)
(* summarizer's answer to the second await, then from the extractor's      *)
(* answer to its return; calls on one agent interleave at the awaits.      *)
(***************************************************************************)
PlaceholderResponse ==
    "This is a placeholder response. Replace with your agent's actual response."

\* a call that failed, and one that returned text
Rejected == [ok |-> FALSE]
Resolved(text) == [ok |-> TRUE, text |-> text]

\* text || dflt
OrElse(text, dflt) == IF text = "" THEN dflt ELSE text

\* upsertFacts(v) and cleanupFacts(80) inside the try block
upsertAndCleanup(store, v, ms) ==
    LET r == upsertFactsOfValue(store, v, ms)
    IN  IF r.threw
        THEN [store |-> r.store, upserted |-> r.store, caught |-> TRUE]
        ELSE [store |-> cleanupResult(r.store, AgentMaxFacts),
              upserted |-> r.store, caught |-> FALSE]

\* lines 54-64 of processMessage after the extractor settled with outcome:
\* the store after it (upserted: before cleanupFacts), and whether the catch
\* block ran
extractFacts(store, outcome, ms) ==
    IF ~outcome.ok THEN [store |-> store, upserted |-> store, caught |-> TRUE]
    ELSE upsertAndCleanup(store, safeParseFacts(OrElse(outcome.text, "[]")), ms)

\* the calls that have begun and whose compaction has not completed
InFlight == {d \in CallSlots : calls[d].pc \in {"summary", "facts"}}

\* the call up to its first await: buildPrompt (a read, its result only
\* logged), addTurn, and the summarizer called with the summary of that moment
processMessage(c, userText) ==
    /\ calls[c].pc = "idle"
    /\ LET userMsg == Msg("user", userText)
           newTurns == <<userMsg, Msg("assistant", PlaceholderResponse)>>
       IN  /\ calls' = [calls EXCEPT ![c] =
                          [pc |-> "summary", userText |-> userText,
                           inFlight |-> InFlight, readWindow |-> window,
                           summaryArg |-> getCurrentSummary, summaryOk |-> FALSE,
                           returned |-> ""]]
           /\ window' = capWindow(window \o newTurns)
           /\ appended' = appended \o newTurns
    /\ out' = NoCall
    /\ UNCHANGED <<staticPrefix, sessionSummary, facts, now, lastUpsert, factLog, lastSet,
                   logging, compaction, digest, localTools>>

\* mutant of summaryResp: the catch block clears the stored summary
summaryRespClearing(c, outcome) ==
    /\ calls[c].pc = "summary"
    /\ sessionSummary' = IF outcome.ok THEN OrElse(outcome.text, "") ELSE ""
    /\ lastSet' = IF outcome.ok /\ logging
                  THEN [called |-> TRUE, summary |-> OrElse(outcome.text, "")]
                  ELSE lastSet
    /\ out' = IF outcome.ok THEN NoCall ELSE out
    /\ calls' = [calls EXCEPT ![c].pc = "facts", ![c].summaryOk = outcome.ok]
    /\ UNCHANGED <<staticPrefix, window, facts, now, appended, lastUpsert, factLog, logging,
                   compaction, digest, localTools>>

\* the summarizer has settled: setSessionSummary or the catch block, then the
\* extractor is called
summaryResp(c, outcome) ==
    /\ calls[c].pc = "summary"
    /\ sessionSummary' = IF outcome.ok THEN OrElse(outcome.text, "") ELSE sessionSummary
    /\ lastSet' = IF outcome.ok /\ logging
                  THEN [called |-> TRUE, summary |-> OrElse(outcome.text, "")]
                  ELSE lastSet
    /\ out' = IF outcome.ok THEN NoCall ELSE out
    /\ calls' = [calls EXCEPT ![c].pc = "facts", ![c].summaryOk = outcome.ok]
    /\ UNCHANGED <<staticPrefix, window, facts, now, appended, lastUpsert, factLog, logging,
                   compaction, digest, localTools>>

\* the extractor has settled: safeParseFacts, upsertFacts and cleanupFacts(80)
\* or the catch block, then the call returns the response
factsResp(c, outcome, ms) ==
    /\ calls[c].pc = "facts"
    /\ ms \in now..MaxClock
    /\ LET r == extractFacts(facts, outcome, ms)
       IN  /\ facts' = r.store
           /\ compaction' = [done |-> TRUE, call |-> c, outcome |-> outcome,
                             before |-> facts, upserted |-> r.upserted,
                             caught |-> r.caught]
    /\ now' = ms
    /\ lastUpsert' = <<>>
    /\ out' = NoCall
    /\ calls' = [calls EXCEPT ![c].pc = "done", ![c].returned = PlaceholderResponse]
    /\ UNCHANGED <<staticPrefix, window, sessionSummary, appended, factLog, lastSet, logging,
                   digest, localTools>>

\* the turns before those of the model: one processMessage call after the
\* other, the summarizer failing and the extractor returning one block of
\* facts each time, a list as asked for, as long as the store is below its cap
RECURSIVE storeAfterBlocks(_)
storeAfterBlocks(b) ==
    IF b = 0 THEN <<>>
    ELSE LET earlier == storeAfterBlocks(b - 1)
         IN  IF Len(earlier) < AgentMaxFacts
             THEN upsertAndCleanup(earlier, JsFacts(BlockFacts(b)), 0).store
             ELSE earlier

RECURSIVE windowAfterTurns(_)
windowAfterTurns(n) ==
    IF n = 0 THEN <<>>
    ELSE capWindow(windowAfterTurns(n - 1)
                       \o <<Msg("user", "go"), Msg("assistant", PlaceholderResponse)>>)

earlierTurns ==
    /\ \A c \in CallSlots : calls[c].pc = "idle"
    /\ window = <<>>
    /\ facts = <<>>
    /\ compaction = NoCompaction
    /\ facts' = storeAfterBlocks(Cardinality(Blocks))
    /\ window' = windowAfterTurns(Cardinality(Blocks))
    /\ out' = NoCall
    /\ UNCHANGED <<staticPrefix, sessionSummary, now, appended, lastUpsert, factLog, lastSet,
                   logging, calls, compaction, digest, localTools>>

SummarizerOutcomes == {Rejected, Resolved("use pnpm")}

ExtractorTexts ==
    {"", "I found no facts.", FactsJson(<<FactOf("a", "1")>>), MissingKeyText,
     BareFactText, "null", "\"none\""}

ExtractorOutcomes == {Rejected} \cup {Resolved(text) : text \in ExtractorTexts}

NextAgent ==
    \/ \E c \in 1..MaxCalls : \E t \in UserTexts : processMessage(c, t)
    \/ \E c \in 1..MaxCalls : \E outcome \in SummarizerOutcomes : summaryResp(c, outcome)
    \/ \E c \in 1..MaxCalls : \E outcome \in ExtractorOutcomes :
         \E ms \in now..MaxClock : factsResp(c, outcome, ms)

SpecAgent == Init /\ [][NextAgent]_vars

\* one call on an agent that is new or has been through the earlier turns
NextCap ==
    \/ earlierTurns
    \/ \E t \in UserTexts : processMessage(1, t)
    \/ \E outcome \in SummarizerOutcomes : summaryResp(1, outcome)
    \/ \E outcome \in ExtractorOutcomes : \E ms \in now..MaxClock : factsResp(1, outcome, ms)

SpecCap == Init /\ [][NextCap]_vars

\* what call c says, and the summary a faithful summarizer returns for a
\* current summary and the text of the new turn
OverlapText(c) == "t" \o DigitChar(c)
FaithfulSummary(current, userText) ==
    IF current = "" THEN userText ELSE current \o " " \o userText

\* calls that overlap: a call may begin while earlier ones wait for the
\* summarizer or the extractor; the summarizer fails or answers faithfully
NextOverlap ==
    \/ \E c \in 1..MaxOverlap :
         /\ c > 1 => calls[c - 1].pc # "idle"
         /\ processMessage(c, OverlapText(c))
    \/ \E c \in 1..MaxOverlap :
         \E outcome \in {Rejected,
                          Resolved(FaithfulSummary(calls[c].summaryArg, calls[c].userText))} :
           summaryResp(c, outcome)
    \/ \E c \in 1..MaxOverlap :
         \E outcome \in {Rejected, Resolved(FactsJson(<<FactOf("a", "1")>>))} :
           factsResp(c, outcome, now)

SpecOverlap == Init /\ [][NextOverlap]_vars

\* a store that outgrows the bullet list: whole blocks of facts upserted in
\* any order, cleanups that evict a block or more, and prompts built within
\* and far below the budget
ManyFactsBlocks == {1, 3, 4}
ManyFactsCleanups == {BlockLen, 2 * BlockLen}

NextManyFacts ==
    \/ \E b \in ManyFactsBlocks : upsertFacts(BlockFacts(b), [i \in 1..BlockLen |-> now])
    \/ \E maxFacts \in ManyFactsCleanups : cleanupFacts(maxFacts)
    \/ \E maxInputTokens \in {1, DefaultMaxInputTokens} :
         buildPrompt(Msg("user", "go"), maxInputTokens, 0)

SpecManyFacts == Init /\ [][NextManyFacts]_vars

(***************************************************************************)
(* The local project tools (local-tools.ts): the current project id kept   *)
(* by the ProjectStateManager, the project directories on disk, and the    *)
(* tools that fall back on the current project when they are given no      *)
(* projectId.                                                              *)
(***************************************************************************)
\* the project ids that generateProjectId draws and that callers pass
ProjectIds == {"p1"}
\* the file paths that callers pass, none with a leading slash
FilePaths == {"a.txt"}
FileContents == {"x"}

\* process.cwd()
Cwd == "/app"
PROJECTS_DIR == "projects"

getProjectPath(projectId) ==
    IF projectId = "" THEN Cwd \o "/" \o PROJECTS_DIR
    ELSE Cwd \o "/" \o PROJECTS_DIR \o "/" \o projectId

resolveProjectFilePath(projectId, filePath) ==
    IF filePath = "./" \/ filePath = "" THEN getProjectPath(projectId)
    ELSE getProjectPath(projectId) \o "/" \o filePath

\* new Error(message): message and stack are own properties that are not
\* enumerable
NewError(message) == [message |-> message, props |-> <<>>]

\* the error a failed fs call rejects with: errno, code, syscall and path are
\* enumerable own properties
FsError(syscall, atPath) ==
    [message |-> "ENOENT: no such file or directory, " \o syscall,
     props |-> << <<"errno", "-2">>, <<"code", "\"ENOENT\"">>,
                  <<"syscall", "\"" \o syscall \o "\"">>,
                  <<"path", "\"" \o atPath \o "\"">> >>]

RECURSIVE JoinProps(_)
JoinProps(props) ==
    IF props = <<>> THEN ""
    ELSE "\"" \o props[1][1] \o "\":" \o props[1][2]
             \o (IF Len(props) > 1 THEN "," ELSE "") \o JoinProps(Tail(props))

\* JSON.stringify(e) of a caught error: its enumerable own properties only
JSONstringifyError(e) == "{" \o JoinProps(e.props) \o "}"

NoProjectMessage ==
    "No project ID available. Please create a project first using createProject tool."

\* getCurrentProjectId(), on the current project id
getCurrentProjectId(current) ==
    IF current.isNull \/ current.id = ""
    THEN [threw |-> TRUE, error |-> NewError(NoProjectMessage)]
    ELSE [threw |-> FALSE, id |-> current.id]

\* context.projectId || getCurrentProjectId()
projectIdOrCurrent(input, current) ==
    IF input.given /\ input.id # "" THEN [threw |-> FALSE, id |-> input.id]
    ELSE getCurrentProjectId(current)

\* what a tool call settles with: the value it returns, the fs calls it made,
\* the disk and the current project id it leaves
Settled(value, ops, d, current) ==
    [value |-> value, ops |-> ops, disk |-> d, current |-> current]

\* the catch block of every tool
Caught(e, ops, d, current) == Settled([error |-> JSONstringifyError(e)], ops, d, current)

HasFile(d, projectId, filePath) ==
    \E f \in d.files : f.projectId = projectId /\ f.path = filePath

FileAt(d, projectId, filePath) ==
    CHOOSE f \in d.files : f.projectId = projectId /\ f.path = filePath

\* createProject.execute, with the id generateProjectId drew and how far the
\* clone and the install got
createProjectExecute(call, d, current) ==
    LET made == [d EXCEPT !.root = TRUE, !.dirs = @ \cup {call.generated}]
    IN  IF call.outcome = "ok"
        THEN Settled([projectId |-> call.generated], <<"mkdir", "mkdir">>, made,
                     IdOf(call.generated))
        ELSE Caught(NewError(call.outcome), <<"mkdir", "mkdir">>, made, current)

\* setProjectId.execute
setProjectIdExecute(call, d, current) ==
    LET projectId == call.input.id
        exists == IF projectId = "" THEN d.root ELSE projectId \in d.dirs
    IN  IF ~exists
        THEN Settled([error |-> "Project directory does not exist: "
                                    \o getProjectPath(projectId)],
                     <<"access">>, d, current)
        ELSE Settled([success |-> TRUE, projectId |-> projectId,
                      projectPath |-> getProjectPath(projectId)],
                     <<"access">>, d, IdOf(projectId))

\* readFile.execute
readFileExecute(call, d, current) ==
    LET p == projectIdOrCurrent(call.input, current)
    IN  IF p.threw THEN Caught(p.error, <<>>, d, current)
        ELSE IF ~HasFile(d, p.id, call.path)
        THEN Caught(FsError("open", resolveProjectFilePath(p.id, call.path)),
                    <<"readFile">>, d, current)
        ELSE Settled([content |-> FileAt(d, p.id, call.path).content, path |-> call.path],
                     <<"readFile">>, d, current)

\* writeFile.execute
writeFileExecute(call, d, current) ==
    LET p == projectIdOrCurrent(call.input, current)
    IN  IF p.threw THEN Caught(p.error, <<>>, d, current)
        ELSE LET kept == {f \in d.files : ~(f.projectId = p.id /\ f.path = call.path)}
                 written == [projectId |-> p.id, path |-> call.path,
                             content |-> call.content]
             IN  Settled([success |-> TRUE, path |-> call.path],
                         <<"mkdir", "writeFile">>,
                         [root |-> TRUE, dirs |-> d.dirs \cup {p.id},
                          files |-> kept \cup {written}],
                         current)

\* getCurrentProject.execute
getCurrentProjectExecute(call, d, current) ==
    LET p == getCurrentProjectId(current)
    IN  IF p.threw THEN Caught(p.error, <<>>, d, current)
        ELSE Settled([projectId |-> p.id, projectPath |-> getProjectPath(p.id)],
                     <<>>, d, current)

\* listFiles.execute
listFilesExecute(call, d, current) ==
    LET p == projectIdOrCurrent(call.input, current)
    IN  IF p.threw THEN Caught(p.error, <<>>, d, current)
        ELSE IF p.id \notin d.dirs
        THEN Caught(FsError("scandir", resolveProjectFilePath(p.id, call.path)),
                    <<"readdir">>, d, current)
        ELSE Settled([files |-> {f.path : f \in {g \in d.files : g.projectId = p.id}},
                      path |-> call.path],
                     <<"readdir">>, d, current)

\* the body of a tool, run once the rate-limit delay is over
Execute(call, d, current) ==
    CASE call.tool = "createProject" -> createProjectExecute(call, d, current)
      [] call.tool = "setProjectId" -> setProjectIdExecute(call, d, current)
      [] call.tool = "readFile" -> readFileExecute(call, d, current)
      [] call.tool = "writeFile" -> writeFileExecute(call, d, current)
      [] call.tool = "getCurrentProject" -> getCurrentProjectExecute(call, d, current)
      [] call.tool = "listFiles" -> listFilesExecute(call, d, current)

\* the calls a caller can make
InputIds == {Undefined, Given("")} \cup {Given(id) : id \in ProjectIds}
CreateOutcomes == {"ok", "Git clone failed with exit code 128"}
ToolCall(tool, input, filePath, content, generated, outcome) ==
    [tool |-> tool, input |-> input, path |-> filePath, content |-> content,
     generated |-> generated, outcome |-> outcome]
ToolCalls ==
    {ToolCall("createProject", Undefined, "", "", id, o) :
         id \in ProjectIds, o \in CreateOutcomes}
    \cup {ToolCall("setProjectId", input, "", "", "", "") : input \in InputIds \ {Undefined}}
    \cup {ToolCall("readFile", input, fp, "", "", "") : input \in InputIds, fp \in FilePaths}
    \cup {ToolCall("writeFile", input, fp, c, "", "") :
              input \in InputIds, fp \in FilePaths, c \in FileContents}
    \cup {ToolCall("getCurrentProject", Undefined, "", "", "", "")}
    \cup {ToolCall("listFiles", input, "./", "", "", "") : input \in InputIds}

\* the tools whose body waits for the rate-limit delay before it runs
Delayed == {call \in ToolCalls : call.tool # "listFiles"}

\* session s invokes a tool: its body waits for the rate-limit delay
invoke(s, call) ==
    /\ Cardinality(pending) < MaxPending
    /\ pending' = pending \cup {[session |-> s, call |-> call,
                                  noProjectAtInvoke |-> currentProjectId.isNull,
                                  own |-> sessions[s]]}
    /\ UNCHANGED <<currentProjectId, disk, toolOut, sessions, agentState>>

\* what is recorded of a call that has returned: resolved is the project id
\* its body worked with, own what the session had created when it invoked it
Returned(s, call, noProjectAtInvoke, own, r) ==
    [called |-> TRUE, session |-> s, call |-> call,
     noProjectAtInvoke |-> noProjectAtInvoke, own |-> own,
     current |-> currentProjectId,
     resolved |-> projectIdOrCurrent(call.input, currentProjectId),
     value |-> r.value, ops |-> r.ops, before |-> disk]

\* the history of session s after its call has settled with r
SessionAfter(s, call, r) ==
    IF call.tool = "createProject" /\ "projectId" \in DOMAIN r.value
    THEN [sessions EXCEPT ![s] = [created |-> IdOf(r.value.projectId), chose |-> FALSE]]
    ELSE IF call.tool = "setProjectId" /\ "success" \in DOMAIN r.value
    THEN [sessions EXCEPT ![s].chose = TRUE]
    ELSE sessions

\* session s invokes listFiles: it has no delay, its body reads the project id
\* at once
listFiles(s, call) ==
    /\ call.tool = "listFiles"
    /\ LET r == Execute(call, disk, currentProjectId)
       IN  /\ disk' = r.disk
           /\ currentProjectId' = r.current
           /\ toolOut' = Returned(s, call, currentProjectId.isNull, sessions[s], r)
    /\ UNCHANGED <<pending, sessions, agentState>>

\* the delay of a pending call is over: its body runs and the call returns
execute(p) ==
    /\ p \in pending
    /\ LET r == Execute(p.call, disk, currentProjectId)
       IN  /\ disk' = r.disk
           /\ currentProjectId' = r.current
           /\ toolOut' = Returned(p.session, p.call, p.noProjectAtInvoke, p.own, r)
           /\ sessions' = SessionAfter(p.session, p.call, r)
    /\ pending' = pending \ {p}
    /\ UNCHANGED agentState

NextTools ==
    \/ \E call \in Delayed : invoke(1, call)
    \/ \E call \in ToolCalls : listFiles(1, call)
    \/ \E p \in pending : execute(p)

SpecTools == Init /\ [][NextTools]_vars

\* the project id generateProjectId draws for session s
SessionProject(s) == "p" \o DigitChar(s)

\* the calls of a session: it creates its project, makes a project of any
\* session the current one, and writes a file or asks for the current
\* project without a projectId
SessionCalls(s) ==
    {ToolCall("createProject", Undefined, "", "", SessionProject(s), o) :
         o \in CreateOutcomes}
    \cup {ToolCall("setProjectId", Given(SessionProject(t)), "", "", "", "") : t \in Sessions}
    \cup {ToolCall("writeFile", Undefined, fp, c, "", "") :
              fp \in FilePaths, c \in FileContents}
    \cup {ToolCall("getCurrentProject", Undefined, "", "", "", "")}

\* the sessions run side by side, each awaiting its tool call before it makes
\* the next
NextSessions ==
    \/ \E s \in Sessions : \E call \in SessionCalls(s) :
         /\ \A p \in pending : p.session # s
         /\ invoke(s, call)
    \/ \E p \in pending : execute(p)

SpecSessions == Init /\ [][NextSessions]_vars

(***************************************************************************)
(* Vocabulary of the properties.                                           *)
(***************************************************************************)
\* the last n elements of s, none when n <= 0
LastN(s, n) == IF n <= 0 THEN <<>> ELSE SubSeq(s, Len(s) - Min(n, Len(s)) + 1, Len(s))

Occurrences(s, x) == Cardinality({i \in 1..Len(s) : s[i] = x})

\* the segments that precede the window segment
Head3 == staticPrefix \o SummarySegment \o FactsSegment

\* every prompt the last buildPrompt measured was over its budget
AllOverBudget ==
    \A i \in 1..Len(out.result.measured) : out.result.measured[i].tokens > out.maxInputTokens

(***************************************************************************)
(* Recency window.                                                         *)
(***************************************************************************)
\* C1: after any sequence of addTurn calls, batches longer than 6 included,
\* the window holds at most 6 messages, and they are exactly the last
\* min(6, total appended) messages ever appended, in their original order.
C1_WindowIsLastSix ==
    /\ Len(window) <= 6
    /\ window = LastN(appended, Min(6, Len(appended)))

\* a batch longer than the window was appended and the oldest message evicted
C1_Witness ==
    /\ Len(appended) > 6
    /\ Len(window) = 6
    /\ appended[1] = Msg("user", "m1")

(***************************************************************************)
(* Prompt assembler.                                                       *)
(***************************************************************************)
\* C2: in every outcome of buildPrompt the returned approxTokens equals the
\* Token Counter applied to exactly the message sequence that is returned.
C2_ApproxTokensIsCountOfReturned ==
    out.called => out.result.approxTokens = countTokens(out.result.messages)

\* C3: whenever Step 1 has driven k to 0 or below, the rebuilt candidate
\* contains no window message at all.
C3_NoWindowOnceKIsZero ==
    out.called =>
        \A i \in 2..Len(out.result.measured) :
            out.result.measured[i].k <= 0
                => out.result.measured[i].prompt = Head3 \o <<out.userMsg>>

\* C4: the window segment of the initial candidate is exactly the last
\* min(keepTurns, window length) messages of the window, for every keepTurns;
\* keepTurns <= 0 yields an empty window segment.
C4_InitialSegmentIsLastKeepTurns ==
    out.called =>
        out.result.measured[1].prompt =
            Head3 \o LastN(window, Min(out.keepTurns, Len(window))) \o <<out.userMsg>>

C6_NudgeReplacesWindowSegment ==
    (out.called /\ out.result.nudged) =>
        out.result.messages =
            staticPrefix \o SummarySegment \o FactsSegment \o <<NudgeMsg>> \o <<out.userMsg>>

\* C7: in every prompt returned by buildPrompt, at every degradation stage and
\* for every budget, the new user message is the last element, with the role
\* and content of the message passed in.
C7_UserMessageLast ==
    out.called =>
        /\ out.result.messages # <<>>
        /\ out.result.messages[Len(out.result.messages)] = out.userMsg

\* a prompt degraded through Step 1 and Step 2 that still ends in the user message
C7_Witness ==
    /\ out.called
    /\ out.result.nudged
    /\ Len(out.result.measured) > 1
    /\ out.result.messages[Len(out.result.messages)] = Msg("user", "go")

\* C8: if the initial candidate measures at or below maxInputTokens, the
\* returned sequence is exactly that candidate, the Token Counter is invoked
\* exactly once and the nudge is absent; with an empty window, summary and
\* fact store the result is the static prefix followed by the user message.
C8_WithinBudgetReturnsInitialCandidate ==
    (out.called /\ out.result.measured[1].tokens <= out.maxInputTokens) =>
        /\ out.result.messages = out.result.measured[1].prompt
        /\ Len(out.result.measured) = 1
        /\ Occurrences(out.result.messages, NudgeMsg) = 0
        /\ (window = <<>> /\ sessionSummary = "" /\ facts = <<>>)
              => out.result.messages = staticPrefix \o <<out.userMsg>>

\* the initial candidate costs exactly the budget and carries window messages
C8_Witness ==
    /\ out.called
    /\ out.result.measured[1].tokens = out.maxInputTokens
    /\ out.keepTurns > 0
    /\ window # <<>>
    /\ out.result.messages = out.result.measured[1].prompt

\* C9: when every candidate exceeds the budget, buildPrompt returns a
\* sequence that contains no raw window message and exactly one nudge
\* message, k having been driven to 0 or below first.
C9_TinyBudgetReachesNudge ==
    (out.called /\ AllOverBudget) =>
        /\ out.result.k <= 0
        /\ Occurrences(out.result.messages, NudgeMsg) = 1
        /\ \A i \in 1..Len(out.result.messages) :
               \A j \in 1..Len(window) : out.result.messages[i] # window[j]

\* maxInputTokens = 1 on a full window with the default keepTurns
C9_Witness ==
    /\ out.called
    /\ out.maxInputTokens = 1
    /\ out.keepTurns = DefaultKeepTurns
    /\ Len(window) = 6
    /\ AllOverBudget
    /\ out.result.nudged

(***************************************************************************)
(* Fact store.                                                             *)
(***************************************************************************)
\* the places of the store whose record has the key of f, letter case aside
SameKeyPlaces(f) ==
    {n \in 1..Len(facts) : toLowerCase(facts[n].fact.key) = toLowerCase(f.key)}

\* C10: after any sequence of upsertFacts and cleanupFacts calls the store
\* holds at most one record per case-folded key, and right after an upsert
\* each upserted key has exactly one record, whose value is that of the last
\* fact of the call with that key, letter case aside.
C10_OneFactPerFoldedKey ==
    /\ \A m \in 1..Len(facts) : SameKeyPlaces(facts[m].fact) = {m}
    /\ \A i \in 1..Len(lastUpsert) :
           (\A j \in (i + 1)..Len(lastUpsert) :
                toLowerCase(lastUpsert[j].key) # toLowerCase(lastUpsert[i].key))
               => /\ Cardinality(SameKeyPlaces(lastUpsert[i])) = 1
                  /\ \A n \in SameKeyPlaces(lastUpsert[i]) :
                         /\ facts[n].fact.value = lastUpsert[i].value
                         /\ facts[n].fact.key = lastUpsert[i].key

\* "Name" then "name" were upserted and one fact is left, with the last value
C10_Witness ==
    /\ lastUpsert = <<FactOf("Name", "1"), FactOf("name", "2")>>
    /\ Len(facts) = 1
    /\ facts[1].fact.key = "name"
    /\ facts[1].fact.value = "2"

\* the properties, keys and values of a store in property order, the time of
\* the update left out
KeysAndValues(store) ==
    [i \in 1..Len(store) |-> <<store[i].idx, store[i].fact.key, store[i].fact.value>>]

\* C11: upsertFacts called twice in a row with the same facts leaves the keys
\* and values that the first call left; only updatedAt may differ.
C11_UpsertTwiceAsOnce ==
    (factLog.op = "upsertFacts" /\ factLog.repeat)
        => KeysAndValues(facts) = KeysAndValues(factLog.before)

\* "Name" then "name" upserted twice in a row, the second time later
C11_Witness ==
    /\ factLog.op = "upsertFacts"
    /\ factLog.repeat
    /\ lastUpsert = <<FactOf("Name", "1"), FactOf("name", "2")>>
    /\ Len(facts) = 1
    /\ facts[1].fact.updatedAt # factLog.before[1].fact.updatedAt

\* the bullet list made of the facts at the places ks of the store, in turn
BulletsOf(ks) == Join([i \in 1..Len(ks) |-> BulletLine(facts[ks[i]].fact)], "\n")

\* C12: for every store and every max (a count, 0 or more),
\* getFactsAsBulletList(max) returns at most max bullet lines, each the line
\* of a different fact of the store, in ascending order of the stored key.
C12_BulletsCappedAndAscending ==
    factLog.op = "getFactsAsBulletList"
        => \E ks \in SeqsUpTo(1..Len(facts), Min(factLog.arg, Len(facts))) :
               /\ Len(ks) <= factLog.arg
               /\ \A i \in 1..Len(ks) : \A j \in (i + 1)..Len(ks) :
                      /\ ks[i] # ks[j]
                      /\ StrGT(facts[ks[j]].fact.key, facts[ks[i]].fact.key)
               /\ factLog.text = BulletsOf(ks)

\* b was stored before a, and the list of at most 2 has a before b
C12_Witness ==
    /\ factLog.op = "getFactsAsBulletList"
    /\ factLog.arg = 2
    /\ Len(facts) = 3
    /\ facts[1].fact.key = "b"
    /\ facts[2].fact.key = "a"
    /\ factLog.text = "- a: 4\n- b: 5"

\* the entries of the store found by the last call that the store holds no more
Discarded == {n \in 1..Len(factLog.before) : ~HasIdx(facts, factLog.before[n].idx)}

\* C13: cleanupFacts(maxFacts), maxFacts a count, on a store of more than
\* maxFacts facts leaves exactly maxFacts facts, each an entry of the store it
\* found, unchanged, and updated no earlier than any fact it discarded.
C13_CleanupKeepsMostRecent ==
    (/\ factLog.op = "cleanupFacts"
     /\ factLog.arg >= 0
     /\ Len(factLog.before) > factLog.arg)
        => /\ Len(facts) = factLog.arg
           /\ \A m \in 1..Len(facts) :
                  /\ \E n \in 1..Len(factLog.before) : factLog.before[n] = facts[m]
                  /\ \A k \in 1..Len(facts) : facts[k].idx = facts[m].idx => k = m
                  /\ \A n \in Discarded :
                         getTime(facts[m].fact.updatedAt)
                             >= getTime(factLog.before[n].fact.updatedAt)

\* cleanupFacts(2) found 3 facts and discarded one updated before the others
C13_Witness ==
    /\ factLog.op = "cleanupFacts"
    /\ factLog.arg = 2
    /\ Len(factLog.before) = 3
    /\ Len(facts) = 2
    /\ \E n \in Discarded : \A m \in 1..Len(facts) :
           getTime(facts[m].fact.updatedAt) > getTime(factLog.before[n].fact.updatedAt)

\* C14: cleanupFacts(maxFacts), maxFacts a count, leaves a store of at most
\* maxFacts facts as it is, and called twice in a row with the same maxFacts
\* it leaves the store the first call left.
C14_CleanupAtOrBelowLimitIsNoOp ==
    (factLog.op = "cleanupFacts" /\ factLog.arg >= 0)
        => /\ Len(factLog.before) <= factLog.arg => facts = factLog.before
           /\ factLog.repeat => facts = factLog.before

\* cleanupFacts(2) called twice in a row on facts not in the order of their
\* updates
C14_Witness ==
    /\ factLog.op = "cleanupFacts"
    /\ factLog.repeat
    /\ factLog.arg = 2
    /\ Len(facts) = 2
    /\ getTime(facts[1].fact.updatedAt) < getTime(facts[2].fact.updatedAt)

(***************************************************************************)
(* Tool digest.                                                            *)
(***************************************************************************)
DigestHeader == "TOOL=" \o digest.name \o "\nSUMMARY:\n"

TruncationMarker == " ...[truncated]"

\* C15: makeToolDigest(name, raw, maxChars), maxChars a count, returns a
\* message of role tool whose content is the header TOOL=<name>, SUMMARY:
\* followed by raw as it is when raw has at most maxChars characters, and by
\* the first maxChars characters of raw and the marker " ...[truncated]"
\* otherwise, the length of the content then not depending on that of raw.
C15_DigestTruncatesAtMaxChars ==
    digest.called
        => /\ digest.result.role = "tool"
           /\ Len(digest.raw) <= digest.maxChars
                  => digest.result.content = DigestHeader \o digest.raw
           /\ Len(digest.raw) > digest.maxChars
                  => /\ digest.result.content
                            = DigestHeader \o SubSeq(digest.raw, 1, digest.maxChars)
                                  \o TruncationMarker
                     /\ Len(digest.result.content)
                            = Len(DigestHeader) + digest.maxChars + Len(TruncationMarker)

\* an output of 6 characters cut to its first 3
C15_Witness ==
    /\ digest.called
    /\ Len(digest.raw) = 6
    /\ digest.maxChars = 3
    /\ digest.result.content = "TOOL=sh\nSUMMARY:\na\nb ...[truncated]"

(***************************************************************************)
(* Session summary and frame of buildPrompt.                               *)
(***************************************************************************)
\* C16: getCurrentSummary returns the empty string before any
\* setSessionSummary and afterwards the argument of the last one, whatever
\* addTurn, upsertFacts, cleanupFacts and buildPrompt calls were made since.
C16_SummaryIsLastSet ==
    getCurrentSummary = IF lastSet.called THEN lastSet.summary ELSE ""

\* a summary was set over another one, and buildPrompt was the last call
\* made, on a window and a fact store that are not empty
C16_Witness ==
    /\ lastSet.called
    /\ lastSet.summary = "use npm"
    /\ getCurrentSummary = "use npm"
    /\ window # <<>>
    /\ facts # <<>>
    /\ out.called
    /\ out.result.nudged

\* C17: buildPrompt is a pure read: whatever its arguments and whichever
\* stage it returns from, the step that makes the call leaves the window,
\* the fact store, the session summary and the static prefix as they were;
\* the user message is not added to the window.
C17_BuildPromptIsPureRead ==
    [][(out' # out /\ out'.called)
           => UNCHANGED <<staticPrefix, window, sessionSummary, facts>>]_vars

\* buildPrompt has returned the nudge prompt for a user message that the
\* window does not hold
C17_Witness ==
    /\ out.called
    /\ out.result.nudged
    /\ Len(window) = 6
    /\ sessionSummary # ""
    /\ facts # <<>>
    /\ Occurrences(window, out.userMsg) = 0

(***************************************************************************)
(* Fact extraction of processMessage.                                      *)
(***************************************************************************)
\* the text is JSON for a list of records with a key and a value, both strings
ListOfFacts(text) ==
    /\ JSONparse(text).ok
    /\ JSONparse(text).value.type = "array"
    /\ \A i \in 1..Len(JSONparse(text).value.items) :
           LET f == JSONparse(text).value.items[i]
           IN  /\ HasStringKey(f)
               /\ "value" \in DOMAIN f.props
               /\ f.props.value.type = "string"

\* C18: when the extractor's text is not JSON for a list of {key, value}
\* records, the fact extraction step of processMessage leaves the fact store
\* exactly as it found it and the call returns its response.
C18_UnparseableResponseLeavesStore ==
    (/\ compaction.done
     /\ compaction.outcome.ok
     /\ ~ListOfFacts(OrElse(compaction.outcome.text, "[]")))
        => /\ facts = compaction.before
           /\ calls[compaction.call].pc = "done"
           /\ calls[compaction.call].returned = PlaceholderResponse

\* the places of the upserted store whose fact the step has evicted
Evicted ==
    {n \in 1..Len(compaction.upserted) : ~HasIdx(facts, compaction.upserted[n].idx)}

\* C19: after every processMessage call that has returned, whatever the
\* extractor answered, the fact store holds at most 80 facts, and the facts
\* the call evicted were updated no later than the facts it kept.
C19_StoreCappedAfterProcessMessage ==
    compaction.done
        => /\ Len(facts) <= AgentMaxFacts
           /\ \A m \in 1..Len(facts) : \A n \in Evicted :
                  getTime(facts[m].fact.updatedAt)
                      >= getTime(compaction.upserted[n].fact.updatedAt)

\* the local tools that take their project from the current project
FallBackTools == {"readFile", "writeFile", "listFiles", "getCurrentProject"}

\* the texts that show the message of the missing project: the message, and
\* the JSON texts of an error that carries it
ShowsNoProject ==
    {NoProjectMessage, "\"" \o NoProjectMessage \o "\"",
     "{\"message\":\"" \o NoProjectMessage \o "\"}"}

\* the last call was made on a fall-back tool, without a projectId, while no
\* current project was set, neither when it was invoked nor when its body ran
CalledWithoutProject ==
    /\ toolOut.called
    /\ toolOut.call.tool \in FallBackTools
    /\ ~toolOut.call.input.given
    /\ toolOut.noProjectAtInvoke
    /\ toolOut.current.isNull

\* C20: a fall-back tool called without a projectId while no current project
\* is set returns the error "No project ID available. Please create a project
\* first using createProject tool." and makes no fs call.
C20_NoProjectErrorObserved ==
    CalledWithoutProject
        => /\ "error" \in DOMAIN toolOut.value
           /\ toolOut.value.error \in ShowsNoProject
           /\ toolOut.ops = <<>>
           /\ disk = toolOut.before

(***************************************************************************)
(* The Step 1 loop of buildPrompt.                                         *)
(***************************************************************************)
\* the candidates the last buildPrompt measured, in the order it measured them
Examined == out.result.measured

\* C21: Step 1 of buildPrompt measures the candidates for k = keepTurns,
\* keepTurns - 2, keepTurns - 4, ... in that order; it goes on from a
\* candidate only when that candidate is over the budget and its k is above 0,
\* it stops at the first candidate that is within the budget or whose k is not
\* above 0, and a candidate within the budget is the prompt it returns.
C21_ShrinkExaminesInOrder ==
    out.called
        => /\ Len(Examined) >= 1
           /\ \A i \in 1..Len(Examined) : Examined[i].k = out.keepTurns - 2 * (i - 1)
           /\ \A i \in 1..(Len(Examined) - 1) :
                  Examined[i].tokens > out.maxInputTokens /\ Examined[i].k > 0
           /\ LET last == Examined[Len(Examined)]
              IN  /\ last.tokens <= out.maxInputTokens \/ last.k <= 0
                  /\ last.tokens <= out.maxInputTokens
                         => /\ out.result.messages = last.prompt
                            /\ out.result.approxTokens = last.tokens

\* a call whose second candidate is the first one within the budget, with
\* turns still left to drop
C21_Witness ==
    /\ out.called
    /\ Len(Examined) = 2
    /\ Examined[1].tokens > out.maxInputTokens
    /\ Examined[2].tokens <= out.maxInputTokens
    /\ Examined[2].k > 0
    /\ out.result.messages = Examined[2].prompt

(***************************************************************************)
(* Turns in the window segment.                                            *)
(***************************************************************************)
\* everything appended so far came as [user, assistant] pairs or as single
\* tool digests
PairsAndDigests ==
    \A i \in 1..Len(appended) :
        /\ appended[i].role \in {"user", "assistant", "tool"}
        /\ appended[i].role = "user"
               => i < Len(appended) /\ appended[i + 1].role = "assistant"
        /\ appended[i].role = "assistant" => i > 1 /\ appended[i - 1].role = "user"

\* the window segment of the prompt the last buildPrompt returned
ReturnedSegment ==
    IF out.result.nudged THEN <<>>
    ELSE SubSeq(out.result.messages, Len(Head3) + 1, Len(out.result.messages) - 1)

\* the messages appended before the first message of the returned segment
LeftOut == SubSeq(appended, 1, Len(appended) - Len(ReturnedSegment))

\* C22: for a window filled by [user, assistant] pairs and single tool
\* digests, and any keepTurns, the window segment of the prompt buildPrompt
\* returns never begins with an assistant or tool message whose user message
\* has been left out.
C22_SegmentNeverSplitsTurn ==
    (out.called /\ PairsAndDigests /\ ReturnedSegment # <<>>)
        => \/ ReturnedSegment[1].role = "user"
           \/ \A i \in 1..Len(LeftOut) : LeftOut[i].role # "user"

(***************************************************************************)
(* Summary and facts under degradation.                                    *)
(***************************************************************************)
SummaryHeader == "Session summary (compact):\n"
FactsHeader == "Key facts:\n"

StartsWith(text, header) ==
    Len(text) >= Len(header) /\ SubSeq(text, 1, Len(header)) = header

\* the system messages of a prompt whose content starts with the header, one
\* per occurrence
Segments(prompt, header) ==
    {i \in 1..Len(prompt) :
         prompt[i].role = "system" /\ StartsWith(prompt[i].content, header)}

\* the prompt carries the segment of this header exactly once when it is
\* wanted and not at all otherwise, with the text the initial candidate has
CarriesOnce(prompt, header, wanted) ==
    LET initial == out.result.measured[1].prompt
    IN  /\ Cardinality(Segments(prompt, header)) = (IF wanted THEN 1 ELSE 0)
        /\ {prompt[i].content : i \in Segments(prompt, header)}
               = {initial[i].content : i \in Segments(initial, header)}

CeilHalf(n) == (n + 1) \div 2

\* the iterations the Step 1 loop of the last buildPrompt ran, and the calls
\* of the token counter it made
Iterations == Len(out.result.measured) - 1
CountTokensCalls == Len(out.result.measured)

\* C24: buildPrompt returns for every window, every keepTurns (a count: odd,
\* zero and above 6 included) and every budget; its shrink loop runs at most
\* ceil(keepTurns / 2) iterations and it calls the token counter at most
\* 1 + ceil(keepTurns / 2) times.
C24_ShrinkLoopBounded ==
    (out.called /\ out.keepTurns >= 0)
        => /\ out.result.messages # <<>>
           /\ Iterations <= CeilHalf(out.keepTurns)
           /\ CountTokensCalls <= 1 + CeilHalf(out.keepTurns)

\* an odd keepTurns above the window cap, shrunk all the way
C24_Witness ==
    /\ out.called
    /\ out.keepTurns = MaxKeepTurns
    /\ out.keepTurns % 2 = 1
    /\ Iterations = CeilHalf(out.keepTurns)
    /\ out.result.nudged

(***************************************************************************)
(* Overlapping processMessage calls.                                       *)
(***************************************************************************)
\* the calls that have begun
Begun == {c \in CallSlots : calls[c].pc # "idle"}

\* the turn call d records in the window
TurnOf(d) == <<Msg("user", calls[d].userText), Msg("assistant", PlaceholderResponse)>>

\* the window holds the two messages of the turn, one after the other
HoldsTurn(w, turn) == \E i \in 1..(Len(w) - 1) : SubSeq(w, i, i + 1) = turn

\* C25: the summary and fact store a processMessage call reads when it begins
\* lack the compaction of at most one turn, that of a call still in flight,
\* whose user and assistant messages the window it reads already holds.
C25_AtMostOneTurnStale ==
    \A c \in Begun :
        /\ Cardinality(calls[c].inFlight) <= 1
        /\ \A d \in calls[c].inFlight : HoldsTurn(calls[c].readWindow, TurnOf(d))

(***************************************************************************)
(* The nudge and the budget.                                               *)
(***************************************************************************)
\* the prompt the last buildPrompt returned contains the nudge message
HasNudge == \E i \in 1..Len(out.result.messages) : out.result.messages[i] = NudgeMsg

\* C26: the prompt buildPrompt returns contains the nudge message if and only
\* if the approxTokens it returns exceeds maxInputTokens; a returned prompt
\* without the nudge measures within the budget.
C26_NudgeIffOverBudget ==
    out.called
        => /\ HasNudge <=> out.result.approxTokens > out.maxInputTokens
           /\ ~HasNudge => countTokens(out.result.messages) <= out.maxInputTokens

\* a call that shrank the window to the end and still returned the nudge
C26_Witness ==
    /\ out.called
    /\ HasNudge
    /\ out.result.approxTokens > out.maxInputTokens
    /\ Len(out.result.measured) >= 2

(***************************************************************************)
(* Failures of the compaction calls.                                       *)
(***************************************************************************)
\* call c goes from the summarizer to the extractor in this step, the
\* summarizer having failed
SummarizerFails(c) ==
    calls[c].pc = "summary" /\ calls'[c].pc # "summary" /\ ~calls'[c].summaryOk

\* call c ends in this step, the extractor having failed
ExtractorFails(c) ==
    /\ calls[c].pc = "facts"
    /\ calls'[c].pc # "facts"
    /\ compaction'.call = c
    /\ ~compaction'.outcome.ok

\* C27: in processMessage a failure of the summarizer call leaves the stored
\* summary as it is and the call goes on to the fact extraction; a failure of
\* the extractor call leaves the stored summary, and the fact store, as they
\* are; in both cases the turn is still in the window, and the call returns
\* the response once the extractor has settled.
C27_CompactionFailuresAreContained ==
    [][\A c \in CallSlots :
           /\ SummarizerFails(c)
                  => /\ sessionSummary' = sessionSummary
                     /\ calls'[c].pc = "facts"
                     /\ window' = window
                     /\ HoldsTurn(window', TurnOf(c))
           /\ ExtractorFails(c)
                  => /\ sessionSummary' = sessionSummary
                     /\ facts' = facts
                     /\ window' = window
                     /\ HoldsTurn(window', TurnOf(c))
                     /\ calls'[c].pc = "done"
                     /\ calls'[c].returned = PlaceholderResponse]_vars

\* a call that has returned although its summarizer failed, leaving the
\* summary an earlier call wrote, and its extractor failed too
C27_Witness ==
    \E c \in CallSlots :
        /\ calls[c].pc = "done"
        /\ ~calls[c].summaryOk
        /\ compaction.done
        /\ compaction.call = c
        /\ ~compaction.outcome.ok
        /\ sessionSummary # ""
        /\ calls[c].returned = PlaceholderResponse
        /\ HoldsTurn(window, TurnOf(c))

(***************************************************************************)
(* Summaries written by overlapping calls.                                 *)
(***************************************************************************)
\* the summary text carries the text of the turn of call d
Incorporates(summary, d) ==
    \E i \in 1..(Len(summary) - 1) : SubSeq(summary, i, i + 1) = calls[d].userText

\* the summarizer of call d has not failed
NotFailed(d) == calls[d].pc = "summary" \/ calls[d].summaryOk

\* C28: with a summarizer that answers faithfully, the summarizer of every
\* call is handed a summary that incorporates the turns of all the calls
\* begun before it, and once every call has completed the stored summary
\* incorporates every turn.
C28_NoSummaryLost ==
    (\A d \in Begun : NotFailed(d))
        => /\ \A c \in Begun : \A d \in Begun :
                  d < c => Incorporates(calls[c].summaryArg, d)
           /\ (\A d \in Begun : calls[d].pc = "done")
                  => \A d \in Begun : Incorporates(sessionSummary, d)

(***************************************************************************)
(* The facts that reach a prompt.                                          *)
(***************************************************************************)
\* the places of the store whose key has fewer than n smaller keys in it
SmallestKeys(n) ==
    {i \in 1..Len(facts) :
         Cardinality({j \in 1..Len(facts) :
                          StrGT(facts[i].fact.key, facts[j].fact.key)}) < n}

\* the places of a set, by ascending key
AscendingKeys(places) ==
    LET smaller ==
            {<<i, Cardinality({j \in places :
                                   StrGT(facts[i].fact.key, facts[j].fact.key)})>> :
                 i \in places}
    IN  [r \in 1..Cardinality(places) |-> (CHOOSE p \in smaller : p[2] = r - 1)[1]]

\* the content of the facts segments of the prompt the last buildPrompt
\* returned
ReturnedFacts ==
    {out.result.messages[i].content : i \in Segments(out.result.messages, FactsHeader)}

\* C29: whatever the size of the store, the facts segment of the prompt
\* buildPrompt returns lists the facts of the 30 smallest keys of the store,
\* or all of them when there are fewer, in ascending order of key, and no
\* other fact.
C29_PromptCarriesThirtySmallestKeys ==
    (out.called /\ facts # <<>>)
        => ReturnedFacts = {FactsHeader \o BulletsOf(AscendingKeys(SmallestKeys(30)))}

\* a prompt built on a store of more than 30 facts that lacks the block of the
\* smallest keys: k41 is among the 30 listed, k71 is not
C29_Witness ==
    /\ out.called
    /\ Len(facts) > 30
    /\ \A i \in 1..Len(facts) : facts[i].fact.key # KeyName(1)
    /\ \E i \in SmallestKeys(30) : facts[i].fact.key = KeyName(41)
    /\ \E i \in 1..Len(facts) \ SmallestKeys(30) : facts[i].fact.key = KeyName(71)

(***************************************************************************)
(* Sessions that share the ProjectStateManager.                            *)
(***************************************************************************)
\* the last call was made on a fall-back tool, without a projectId, by a
\* session whose own createProject had succeeded before it invoked the tool
\* and that has not itself called setProjectId since
CalledAfterOwnCreate ==
    /\ toolOut.called
    /\ toolOut.call.tool \in FallBackTools
    /\ ~toolOut.call.input.given
    /\ ~toolOut.own.created.isNull
    /\ ~toolOut.own.chose
    /\ sessions[toolOut.session] = toolOut.own

\* C30: a tool called without a projectId by a session whose own
\* createProject has succeeded works on the project that session created,
\* whatever createProject and setProjectId calls the other sessions make in
\* between.
C30_ToolUsesOwnProject ==
    CalledAfterOwnCreate
        => /\ ~toolOut.resolved.threw
           /\ toolOut.resolved.id = toolOut.own.created.id

====
